---- MODULE Spec2Model ----
(***************************************************************************)
(* OpenAIRouter: the /v1/chat/completions request pipeline.                *)
(*                                                                         *)
(*   conditionalAuthMiddleware -> apiKeyRateLimit -> tokenRateLimit        *)
(*     -> ChatController.createChatCompletion -> ChatService               *)
(*     .createCompletion -> provider.chatCompletion -> UsageService        *)
(*     .logUsage -> UserModel.updateCredits                                *)
(*                                                                         *)
(* The runtime is a single-threaded event loop: code between two awaits    *)
(* runs atomically, so every action below is one such run-to-completion    *)
(* segment.  Money is counted in nano-USD (1e-9 USD) so that every price   *)
(* of the table is an integer per token.  Time is in milliseconds.         *)
(***************************************************************************)
EXTENDS Integers, Sequences, FiniteSets, TLC

(* ---------------------------- bounds ----------------------------------- *)
\* Requests through the chain of rate limiters (SpecEdge).
MaxEdgeReqs == 2

\* Concurrent completions of one user (SpecLedger).
MaxLedgerReqs == 2

\* Requests through the whole pipeline (Spec).
MaxReqs == 1
\* Requests through the rate limiters (SpecRL).
MaxRLReqs == 2
\* Steps of the clock.
MaxTicks == 2
\* Adapter instances constructed by the factory (SpecFactory).
MaxInstances == 3

(* ------------------------- optional values ----------------------------- *)
\* An optional field is a sequence of length 0 (undefined) or 1.
None == <<>>
Some(v) == <<v>>
Has(x) == x # <<>>
Val(x) == x[1]

(* --------------------------- configuration ----------------------------- *)
\* providers.config.ts: supported model lists.
OpenAIModels ==
  {"deepseek/deepseek-chat-v3.1:free", "deepseek/deepseek-chat", "openai/gpt-4o",
   "openai/gpt-4o-mini", "anthropic/claude-3.5-sonnet", "gpt-4", "gpt-4-turbo",
   "gpt-4-turbo-preview", "gpt-3.5-turbo", "gpt-3.5-turbo-16k"}

AnthropicModels ==
  {"claude-3-opus-20240229", "claude-3-sonnet-20240229", "claude-3-haiku-20240307",
   "claude-2.1", "claude-2.0", "claude-instant-1.2"}

ProviderModels(p) == IF p = "openai" THEN OpenAIModels ELSE AnthropicModels

\* PROVIDER_CONFIGS in configured order.
ProviderOrder == <<"openai", "anthropic">>

\* MODEL_PROVIDER_MAP: the keys mapped to each provider.
MapToOpenAI == OpenAIModels \cup {"gpt"}
MapToAnthropic ==
  AnthropicModels \cup {"claude-3-opus", "claude-3-sonnet", "claude-3-haiku", "claude"}

\* The model names a request of this model can carry besides the listed ones.
OtherModelNames == {"bogus-model", "my-gpt-x", "claude-next"}

\* model.includes(fragment), tabulated over the names above.
Includes(model, frag) ==
  CASE frag = "gpt" ->
         model \in {"openai/gpt-4o", "openai/gpt-4o-mini", "gpt-4", "gpt-4-turbo",
                    "gpt-4-turbo-preview", "gpt-3.5-turbo", "gpt-3.5-turbo-16k",
                    "gpt", "my-gpt-x"}
    [] frag = "claude" ->
         model \in MapToAnthropic \cup {"anthropic/claude-3.5-sonnet", "claude-next"}
    [] frag = "openai" -> model \in {"openai/gpt-4o", "openai/gpt-4o-mini", "openai"}
    [] frag = "anthropic" -> model \in {"anthropic/claude-3.5-sonnet", "anthropic"}
    [] OTHER -> FALSE

\* providers.config.ts getProviderForModel (imported as getProviderNameForModel).
getProviderNameForModel(model) ==
  IF model \in MapToOpenAI THEN "openai"
  ELSE IF model \in MapToAnthropic THEN "anthropic"
  ELSE IF Includes(model, "gpt") THEN "openai"
  ELSE IF Includes(model, "claude") THEN "anthropic"
  ELSE "openai"

\* The providers of PROVIDER_CONFIGS; a provider is active when its API key is
\* configured.
Providers == {"openai", "anthropic"}

\* getActiveProviders, in configured order.
ActiveInOrder(act) == SelectSeq(ProviderOrder, LAMBDA p : p \in act)

\* getAllAvailableModels: the union of the active providers' model lists.
getAllAvailableModels(act) == UNION {ProviderModels(p) : p \in act}

\* The first element of getAllAvailableModels' sorted array.
FirstSortedModel(act) ==
  IF "openai" \in act THEN "anthropic/claude-3.5-sonnet" ELSE "claude-2.0"

\* A slip in the default: the preferred model is returned without looking at
\* the available models.
getDefaultModelUnchecked(act) ==
  IF act = {} THEN None ELSE Some("gpt-3.5-turbo")

\* ChatService.getDefaultModel; None stands for the 'No models available' throw.
getDefaultModel(act) ==
  IF "gpt-3.5-turbo" \in getAllAvailableModels(act) THEN Some("gpt-3.5-turbo")
  ELSE IF getAllAvailableModels(act) # {} THEN Some(FirstSortedModel(act))
  ELSE None

\* ProviderFactory.getProviderForModel: the adapter's provider name, None for
\* the 'No active providers available' throw.
factoryProviderForModel(act, model) ==
  LET ord == ActiveInOrder(act)
      exact == SelectSeq(ord, LAMBDA p : model \in ProviderModels(p))
      fuzzy == SelectSeq(ord, LAMBDA p : Includes(model, p))
  IN  IF exact # <<>> THEN Some(exact[1])
      ELSE IF fuzzy # <<>> THEN Some(fuzzy[1])
      ELSE IF ord # <<>> THEN Some(ord[1])
      ELSE None

(* ----------------------------- requests -------------------------------- *)
\* A message content string is kept as its length in characters and its
\* number of whitespace-separated words.
Msg(role, chars, words) ==
  [role |-> role, content |-> Some([chars |-> chars, words |-> words])]

\* A message whose content is undefined.
MsgNoContent(role) == [role |-> role, content |-> None]

\* A request body: messages, prompt (its length), model, max_tokens, stream.
\* The bodies drawn carry none of the other optional fields (temperature, top_p,
\* n, tools, tool_choice, tool_calls, name, penalties, logit_bias).
Body(messages, prompt, model, maxTokens, stream) ==
  [messages |-> messages, prompt |-> prompt, model |-> model,
   max_tokens |-> maxTokens, stream |-> stream]

BodyGpt == Body(Some(<<Msg("user", 8, 2)>>), None, Some("gpt-3.5-turbo"), Some(58), FALSE)
BodyDefaults == Body(Some(<<Msg("user", 8, 2)>>), None, None, None, FALSE)
BodyClaude ==
  Body(Some(<<Msg("user", 8, 2)>>), None, Some("claude-3-haiku-20240307"), Some(58), FALSE)
BodyClaudeNoMax ==
  Body(Some(<<Msg("user", 8, 2)>>), None, Some("claude-3-haiku-20240307"), None, FALSE)
BodyStream == Body(Some(<<Msg("user", 8, 2)>>), None, Some("gpt-3.5-turbo"), Some(58), TRUE)
BodyNoMessages == Body(None, None, Some("gpt-3.5-turbo"), Some(58), FALSE)
BodyBogus == Body(Some(<<MsgNoContent("user")>>), None, Some("bogus-model"), Some(58), FALSE)

\* The bodies requests are drawn from.
Bodies ==
  {BodyGpt, BodyDefaults, BodyClaude, BodyClaudeNoMax, BodyStream, BodyNoMessages, BodyBogus}

\* The bodies of the rate-limiter specification: only the token estimate of a
\* body matters there.
RLBodies == {BodyGpt, BodyDefaults}

\* Math.ceil(a / b) for a >= 0, b > 0.
CeilDiv(a, b) == (a + b - 1) \div b

RECURSIVE SumSeq(_)
SumSeq(s) == IF s = <<>> THEN 0 ELSE s[1] + SumSeq(Tail(s))

\* body.max_tokens || 1000
MaxTokensOrDefault(body) ==
  IF Has(body.max_tokens) /\ Val(body.max_tokens) # 0 THEN Val(body.max_tokens) ELSE 1000

\* rate-limit middleware estimateTokenUsage: 1 token per 4 characters of every
\* string content and of the prompt, plus max_tokens || 1000.
estimateTokenUsage(body) ==
  LET perMsg(m) == IF Has(m.content) /\ Val(m.content).chars > 0
                   THEN CeilDiv(Val(m.content).chars, 4) ELSE 0
      msgs == IF Has(body.messages)
              THEN SumSeq([i \in 1..Len(Val(body.messages)) |-> perMsg(Val(body.messages)[i])])
              ELSE 0
      prm == IF Has(body.prompt) /\ Val(body.prompt) > 0
             THEN CeilDiv(Val(body.prompt), 4) ELSE 0
  IN  msgs + prm + MaxTokensOrDefault(body)

\* BaseProvider.estimateTokens (used by the Anthropic adapter).
baseEstimateTokens(body) ==
  LET perMsg(m) == IF Has(m.content) THEN CeilDiv(Val(m.content).chars, 4) ELSE 0
      msgs == IF Has(body.messages)
              THEN SumSeq([i \in 1..Len(Val(body.messages)) |-> perMsg(Val(body.messages)[i])])
              ELSE 0
      prm == IF Has(body.prompt) /\ Val(body.prompt) > 0
             THEN CeilDiv(Val(body.prompt), 4) ELSE 0
  IN  msgs + prm + MaxTokensOrDefault(body)

\* OpenAIProvider.estimateTokens: 3 base tokens, 4 + 1 per message, and
\* Math.ceil(words * 0.75) per string content, plus max_tokens || 1000.
openaiEstimateTokens(body) ==
  LET perMsg(m) == 4 + (IF Has(m.content) THEN CeilDiv(3 * Val(m.content).words, 4) ELSE 0) + 1
      msgs == IF Has(body.messages)
              THEN SumSeq([i \in 1..Len(Val(body.messages)) |-> perMsg(Val(body.messages)[i])])
              ELSE 0
  IN  3 + msgs + MaxTokensOrDefault(body)

\* provider.estimateTokens, dispatched on the adapter.
providerEstimateTokens(provider, body) ==
  IF provider = "openai" THEN openaiEstimateTokens(body) ELSE baseEstimateTokens(body)

(* ---------------------------- validation ------------------------------- *)
Roles == {"system", "user", "assistant", "tool"}

\* ChatService.validateRequest on the fields a body carries: TRUE when no
\* createValidationError is thrown.
orchestratorValid(act, body) ==
  /\ Has(body.messages) \/ Has(body.prompt)
  /\ Has(body.messages) => Len(Val(body.messages)) # 0
  /\ Has(body.messages) =>
       \A i \in 1..Len(Val(body.messages)) :
          LET m == Val(body.messages)[i]
          IN  /\ m.role \in Roles
              \* content undefined is allowed only for an assistant message with
              \* tool_calls; a tool message needs tool_call_id (bodies carry neither)
              /\ Has(m.content)
              /\ m.role # "tool"
  /\ Has(body.model) => Val(body.model) \in getAllAvailableModels(act)
  /\ Has(body.max_tokens) =>
       /\ Val(body.max_tokens) >= 1
       /\ Val(body.max_tokens) <= 100000

\* BaseProvider.validateRequest for the adapter of provider p.
baseValid(p, body) ==
  /\ Has(body.messages) \/ Has(body.prompt)
  /\ Has(body.messages) => Len(Val(body.messages)) # 0
  /\ Has(body.model) => Val(body.model) \in ProviderModels(p)
  /\ ~(Has(body.max_tokens) /\ Val(body.max_tokens) # 0 /\ Val(body.max_tokens) < 1)
  /\ ~(Has(body.max_tokens) /\ Val(body.max_tokens) # 0 /\ Val(body.max_tokens) > 100000)

\* AnthropicProvider.validateRequest: the base checks, messages required,
\* max_tokens required and at most 4096.
anthropicValid(body) ==
  /\ baseValid("anthropic", body)
  /\ Has(body.messages)
  /\ Has(body.max_tokens) /\ Val(body.max_tokens) # 0
  /\ Val(body.max_tokens) <= 4096

\* OpenAIProvider.validateRequest: the base checks (the added checks are on
\* fields the bodies do not carry).
openaiValid(body) == baseValid("openai", body)

adapterValid(p, body) == IF p = "openai" THEN openaiValid(body) ELSE anthropicValid(body)

(* ----------------------------- cost model ------------------------------ *)
\* UsageService.getModelPricing: nano-USD per token (USD per 1K tokens * 1e6).
Price(pp, cp) == [promptPrice |-> pp, completionPrice |-> cp]

getModelPricing(provider, model) ==
  IF provider = "openai" THEN
    CASE model = "gpt-4" -> Price(30000, 60000)
      [] model \in {"gpt-4-turbo", "gpt-4-turbo-preview"} -> Price(10000, 30000)
      [] model = "gpt-3.5-turbo" -> Price(1500, 2000)
      [] model = "gpt-3.5-turbo-16k" -> Price(3000, 4000)
      [] OTHER -> Price(30000, 60000)
  ELSE IF provider = "anthropic" THEN
    CASE model = "claude-3-opus-20240229" -> Price(15000, 75000)
      [] model = "claude-3-sonnet-20240229" -> Price(3000, 15000)
      [] model = "claude-3-haiku-20240307" -> Price(250, 1250)
      [] model \in {"claude-2.1", "claude-2.0"} -> Price(8000, 24000)
      [] model = "claude-instant-1.2" -> Price(800, 2400)
      [] OTHER -> Price(15000, 75000)
  ELSE Price(1000, 2000)

\* UsageService.calculateCost.
calculateCost(provider, model, promptTokens, completionTokens) ==
  LET pricing == getModelPricing(provider, model)
  IN  promptTokens * pricing.promptPrice + completionTokens * pricing.completionPrice

\* Math.floor(estimatedTokens * 0.7) and Math.floor(estimatedTokens * 0.3); the
\* estimates of the bodies drawn are values on which the floating-point product
\* floors to the exact quotient.
Floor70(n) == (7 * n) \div 10
Floor30(n) == (3 * n) \div 10

(* ------------------------------ database ------------------------------- *)
\* api_keys rows: owner and per-key limits (rate_limit_rpm >= 1,
\* rate_limit_tpm >= 100 by createApiKeyRequestSchema).
ApiKeyTable ==
  [k1 |-> [userId |-> "u1", rateLimitRpm |-> 2, rateLimitTpm |-> 2000],
   k2 |-> [userId |-> "u2", rateLimitRpm |-> 1, rateLimitTpm |-> 100]]

Keys == DOMAIN ApiKeyTable

\* users rows and their credits (nano-USD) at start.
InitialCredits == [u1 |-> 150000, u2 |-> 1000]

Users == DOMAIN InitialCredits

\* users rows where u1 can pay for a request to any listed model.
AmpleCredits == [u1 |-> 200000000, u2 |-> 1000]

\* rate-limit middleware: the one-minute window of apiKeyRateLimit and
\* tokenRateLimit.
WindowMs == 60000

\* The clock advances in steps of one window: after one step a window opened
\* at the start is at its reset time, after two it has expired.
TickMs == WindowMs

\* The keys of the shared MemoryRateLimitStore: `apikey:<id>` and `tokens:<id>`.
StoreKeys == {<<"apikey", k>> : k \in Keys} \cup {<<"tokens", k>> : k \in Keys}

\* What axios.post can settle to: a 2xx body with or without usage, a 4xx or
\* 5xx response, no response at all (timeout, connection refused), or a
\* failure while the request was being set up.
Usage(p, c, t) == [prompt_tokens |-> p, completion_tokens |-> c, total_tokens |-> t]

Upstream(kind, status, usage) == [kind |-> kind, status |-> status, usage |-> usage]

UpstreamResults ==
  { Upstream("ok", 200, None),
    Upstream("ok", 200, Some(Usage(40, 10, 50))),
    Upstream("ok", 200, Some(Usage(1000, 1000, 2000))),
    Upstream("response", 429, None),
    Upstream("response", 502, None),
    Upstream("noresponse", 0, None),
    Upstream("setup", 0, None) }

(* ------------------------------- errors -------------------------------- *)
\* An error as errorHandler sees it: an AppError (app) with its statusCode,
\* type, code and details.provider, or any other Error.
AppError(statusCode, type, code, provider) ==
  [app |-> TRUE, statusCode |-> statusCode, type |-> type, code |-> code,
   provider |-> provider]

PlainError ==
  [app |-> FALSE, statusCode |-> 0, type |-> "", code |-> "", provider |-> None]

createProviderError(provider, statusCode) ==
  AppError(statusCode, "provider_error", "provider_request_failed", Some(provider))

\* handleAxiosError: error.response, else error.request, else neither.
handleAxiosError(error, provider) ==
  IF error.kind = "response" THEN createProviderError(provider, error.status)
  ELSE IF error.kind = "noresponse" THEN createProviderError(provider, 503)
  ELSE createProviderError(provider, 500)

\* axios.post with `validateStatus: status => status < 500`: TRUE when the
\* promise is rejected with an AxiosError.
AxiosRejects(res) ==
  \/ res.kind \in {"noresponse", "setup"}
  \/ res.kind = "response" /\ ~(res.status < 500)

\* The error chatCompletion of the adapter of `provider` throws when axios.post
\* settles to a result other than a 2xx body: an AxiosError is classified by
\* handleAxiosError; a response that passed validateStatus with
\* `response.status >= 400` is thrown as `new Error(errorMessage)`, which
\* handleError returns as it is.
chatCompletionError(provider, res) ==
  IF AxiosRejects(res) THEN handleAxiosError(res, provider) ELSE PlainError

\* errorHandler: the status, type and code of the error response.
errorHandler(error) ==
  IF error.app
  THEN [status |-> error.statusCode, type |-> error.type, code |-> error.code]
  ELSE [status |-> 500, type |-> "internal_error", code |-> "internal_error"]

(* ------------------------------- state --------------------------------- *)
VARIABLES
  disableAuth,   \* appConfig.disableAuth
  active,        \* names of the providers whose config isActive
  now,           \* Date.now()
  store,         \* MemoryRateLimitStore.store: key -> {count, resetTime}
  credits,       \* users.credits
  usageLog,      \* usage_logs rows
  pc,            \* where each request is in the pipeline
  req,           \* each request's req.apiKey and req.body
  current,       \* rateLimit's local `current`
  hdr,           \* response headers set so far
  resp,          \* the HTTP response sent
  adapterResp,   \* what provider.chatCompletion resolved to
  hist,          \* per-request history: exit taken, calls made
  providers,     \* ProviderFactory.providers: name -> cached instance (0: none)
  created,       \* adapter instances constructed so far
  ret,           \* the last call of the factory and what it returned
  adapterCall,   \* the last adapter method applied on its own, and its result
  health,        \* ProviderFactory.healthCheck in progress: probes and results
  edge           \* requests on their way through the chain of rate limiters

vars == <<disableAuth, active, now, store, credits, usageLog, pc, req, current,
          hdr, resp, adapterResp, hist, providers, created, ret, adapterCall,
          health, edge>>

\* The state of the provider factory; and the state beside the chat pipeline:
\* the adapter method applied last, the health check, the limiter chain.
factoryVars == <<providers, created, ret>>
adapterVars == <<adapterCall, health, edge>>

\* The state of the request pipeline.
pipelineVars == <<disableAuth, now, store, credits, usageLog, pc, req, current,
                  hdr, resp, adapterResp, hist>>

EmptyBody == Body(None, None, None, None, FALSE)
NoReq == [apiKey |-> None, body |-> EmptyBody]
NoResp == [status |-> 0, code |-> "", body |-> None]
NoHdr == [h \in {} |-> 0]
NoWin == [resetTime |-> -1, count |-> 0, tokens |-> 0]
NoHist == [exit |-> "", dispatched |-> FALSE, upstreamCalls |-> 0,
           sinkWrites |-> 0, debit |-> "none", rpmWin |-> NoWin, tpmWin |-> NoWin,
           model |-> None, upstream |-> None, err |-> None]

\* The requests of a behaviour.
Reqs == DOMAIN pc

EmptyStore == [k \in {} |-> 0]

\* ProviderFactory.providers after construction: nothing cached.
EmptyCache == [p \in Providers |-> 0]

\* No adapter method applied yet.
NoCall == [op |-> "none"]

\* No request has reached the rate limiters: no request, no increment seen.
NoEdge == [reqs |-> <<>>, passes |-> {}]

\* No health check has been started.
NoHealth ==
  [phase |-> "idle", startTime |-> 0, probed |-> {}, pending |-> {},
   calls |-> [p \in {} |-> 0], outcome |-> [p \in {} |-> 0],
   results |-> [p \in {} |-> 0], returned |-> None]

\* No call of the factory yet.
NoRet == [op |-> "none", arg |-> "", act |-> {}, result |-> None, evicted |-> FALSE]

\* The store after earlier traffic has used up every key's request limit in a
\* window opened at time 0.
BusyStore ==
  [k \in StoreKeys |-> [count |-> ApiKeyTable[k[2]].rateLimitRpm, resetTime |-> WindowMs]]

\* The state after construction with n requests still to arrive.
InitWith(n, stores) ==
  /\ disableAuth \in BOOLEAN
  /\ active = Providers
  /\ now = 0
  /\ store \in stores
  /\ credits = InitialCredits
  /\ usageLog = {}
  /\ pc = [r \in 1..n |-> "new"]
  /\ req = [r \in 1..n |-> NoReq]
  /\ current = [r \in 1..n |-> 0]
  /\ hdr = [r \in 1..n |-> NoHdr]
  /\ resp = [r \in 1..n |-> NoResp]
  /\ adapterResp = [r \in 1..n |-> None]
  /\ hist = [r \in 1..n |-> NoHist]
  /\ providers = EmptyCache
  /\ created = 0
  /\ ret = NoRet
  /\ adapterCall = NoCall
  /\ health = NoHealth
  /\ edge = NoEdge

\* The whole pipeline starts with every key's window used up by earlier
\* traffic: a request is turned away by the RPM limiter until the window
\* expires, after which the store behaves as a fresh one.
Init == InitWith(MaxReqs, {BusyStore})

\* The rate limiters start with the store as constructed and authentication
\* enabled.
InitRL == InitWith(MaxRLReqs, {EmptyStore}) /\ ~disableAuth

(* -------------------------- rate-limit store --------------------------- *)
\* A slip in the store: every increment opens a fresh entry.
StoreAlwaysFresh(st, key, windowMs, t) ==
  [k \in DOMAIN st \cup {key} |->
     IF k = key THEN [count |-> 1, resetTime |-> t + windowMs] ELSE st[k]]

\* MemoryRateLimitStore.increment: the store after the call.
StoreAfterIncrement(st, key, windowMs, t) ==
  IF key \notin DOMAIN st \/ t > st[key].resetTime
  THEN [k \in DOMAIN st \cup {key} |->
          IF k = key THEN [count |-> 1, resetTime |-> t + windowMs] ELSE st[k]]
  ELSE [st EXCEPT ![key].count = @ + 1]

\* MemoryRateLimitStore.increment: the count it returns.
IncrementResult(st, key, windowMs, t) == StoreAfterIncrement(st, key, windowMs, t)[key].count

\* MemoryRateLimitStore.cleanup, run by the store's interval timer.
Cleanup ==
  /\ \E k \in DOMAIN store : now > store[k].resetTime
  /\ store' = [k \in {x \in DOMAIN store : ~(now > store[x].resetTime)} |-> store[k]]
  /\ UNCHANGED <<adapterVars, factoryVars, disableAuth, active, now, credits, usageLog, pc, req, current,
                 hdr, resp, adapterResp, hist>>

\* Time passes.  MemoryRateLimitStore.increment does no I/O, so its caller
\* resumes in the same turn of the event loop: no window-long step of the
\* clock falls between the increment and its caller's `await` returning.
Tick ==
  /\ now < MaxTicks * TickMs
  /\ \A r \in Reqs : pc[r] # "rpmChk"
  /\ now' = now + TickMs
  /\ UNCHANGED <<adapterVars, factoryVars, disableAuth, active, store, credits, usageLog, pc, req, current,
                 hdr, resp, adapterResp, hist>>

Max(a, b) == IF a >= b THEN a ELSE b

(* ------------------------------ pipeline ------------------------------- *)
\* The request is finished: the response is sent; h is the request's history.
Respond(r, h, status, code, body) ==
  /\ pc' = [pc EXCEPT ![r] = "done"]
  /\ resp' = [resp EXCEPT ![r] = [status |-> status, code |-> code, body |-> body]]
  /\ hist' = [hist EXCEPT ![r] = h]

Finish(r, exit, status, code, body) ==
  Respond(r, [hist[r] EXCEPT !.exit = exit], status, code, body)

\* A POST /v1/chat/completions arrives (JSON body, parsed by express.json) and
\* runs conditionalAuthMiddleware / authMiddleware.  key = None stands for a
\* missing, malformed, unknown or inactive API key.
ArriveFrom(r, bodies, keys) ==
  /\ pc[r] = "new"
  /\ \A q \in Reqs : q < r => pc[q] # "new"
  /\ \E body \in bodies, key \in keys :
       /\ disableAuth => key = None
       /\ IF disableAuth
          THEN /\ req' = [req EXCEPT ![r] = [apiKey |-> None, body |-> body]]
               /\ pc' = [pc EXCEPT ![r] = "rpm"]
               /\ UNCHANGED <<resp, hist>>
          ELSE IF ~Has(key)
          THEN /\ req' = [req EXCEPT ![r] = [apiKey |-> None, body |-> body]]
               /\ Finish(r, "auth", 401, "authentication_error", None)
          ELSE /\ req' = [req EXCEPT ![r] = [apiKey |-> key, body |-> body]]
               /\ pc' = [pc EXCEPT ![r] = "rpm"]
               /\ UNCHANGED <<resp, hist>>
  /\ UNCHANGED <<adapterVars, factoryVars, disableAuth, active, now, store, credits, usageLog, current,
                 hdr, adapterResp>>

Arrive(r) == ArriveFrom(r, Bodies, {None} \cup {Some(k) : k \in Keys})

\* Arrivals of the ledger specification: completions of user u1 with key k1.
ArriveLedger(r) == ArriveFrom(r, {BodyGpt, BodyDefaults}, {Some("k1")})

\* Arrivals of the rate-limiter specification: authenticated requests.
ArriveRL(r) == ArriveFrom(r, RLBodies, {Some(k) : k \in Keys})

\* History: the window (its reset time) an increment of a request fell into,
\* the count the increment returned and the request's token estimate.
Counted(st, key, tokens) ==
  [resetTime |-> st[key].resetTime, count |-> st[key].count, tokens |-> tokens]

\* A slip in the admission check: one request too many is let through.
LimitExceededOffByOne(cur, maxRequests) == cur > maxRequests + 1

\* rateLimit: `current > maxRequests`.
LimitExceeded(cur, maxRequests) == cur > maxRequests

\* apiKeyRateLimit / rateLimit up to `await rateLimitStore.increment(...)`.
RpmIncrement(r) ==
  /\ pc[r] = "rpm"
  /\ IF ~Has(req[r].apiKey)
     THEN \* no API key: skip rate limiting
          /\ pc' = [pc EXCEPT ![r] = "tpm"]
          /\ UNCHANGED <<store, current, hist>>
     ELSE LET key == <<"apikey", Val(req[r].apiKey)>>
          IN  /\ store' = StoreAfterIncrement(store, key, WindowMs, now)
              /\ current' = [current EXCEPT ![r] = IncrementResult(store, key, WindowMs, now)]
              /\ pc' = [pc EXCEPT ![r] = "rpmChk"]
              /\ hist' = [hist EXCEPT ![r].rpmWin = Counted(store', key, 0)]
  /\ UNCHANGED <<adapterVars, factoryVars, disableAuth, active, now, credits, usageLog, req, hdr, resp,
                 adapterResp>>

\* A slip in the headers: the remaining count is not clamped at 0.
RateLimitHeadersUnclamped(maxRequests, cur, windowMs, t) ==
  [h \in {"X-RateLimit-Limit", "X-RateLimit-Remaining", "X-RateLimit-Reset",
          "X-RateLimit-Window"} |->
     CASE h = "X-RateLimit-Limit" -> maxRequests
       [] h = "X-RateLimit-Remaining" -> maxRequests - cur
       [] h = "X-RateLimit-Reset" -> t + windowMs
       [] OTHER -> windowMs]

\* The headers rateLimit sets with res.set.
RateLimitHeaders(maxRequests, cur, windowMs, t) ==
  [h \in {"X-RateLimit-Limit", "X-RateLimit-Remaining", "X-RateLimit-Reset",
          "X-RateLimit-Window"} |->
     CASE h = "X-RateLimit-Limit" -> maxRequests
       [] h = "X-RateLimit-Remaining" -> Max(0, maxRequests - cur)
       [] h = "X-RateLimit-Reset" -> t + windowMs
       [] OTHER -> windowMs]

\* res.set(headers) on top of the headers already set.
SetHeaders(old, new) ==
  [h \in DOMAIN old \cup DOMAIN new |-> IF h \in DOMAIN new THEN new[h] ELSE old[h]]

\* rateLimit after the await: headers, then the limit check (onLimitReached
\* answers 429 and next() is not called).
RpmCheck(r) ==
  /\ pc[r] = "rpmChk"
  /\ LET limit == ApiKeyTable[Val(req[r].apiKey)].rateLimitRpm
     IN  /\ hdr' = [hdr EXCEPT ![r] =
                      SetHeaders(@, RateLimitHeaders(limit, current[r], WindowMs, now))]
         /\ IF LimitExceeded(current[r], limit)
            THEN Finish(r, "rpm", 429, "api_key_rate_limit_exceeded", None)
            ELSE /\ pc' = [pc EXCEPT ![r] = "tpm"]
                 /\ UNCHANGED <<resp, hist>>
  /\ UNCHANGED <<adapterVars, factoryVars, disableAuth, active, now, store, credits, usageLog, req, current,
                 adapterResp>>

\* tokenRateLimit: `estimatedTotal = current + estimatedTokens`.
EstimatedTotal(cur, estimatedTokens) == cur + estimatedTokens

\* tokenRateLimit: `estimatedTotal > apiKey.rateLimitTpm`.
TokenLimitExceeded(cur, estimatedTokens, rateLimitTpm) ==
  EstimatedTotal(cur, estimatedTokens) > rateLimitTpm

\* tokenRateLimit: the store increment, the check against rateLimitTpm and the
\* 429 answer (the code after its await reads only locals).
TokenRateLimit(r) ==
  /\ pc[r] = "tpm"
  /\ LET estimatedTokens == estimateTokenUsage(req[r].body)
     IN  IF ~Has(req[r].apiKey) \/ estimatedTokens = 0
         THEN /\ pc' = [pc EXCEPT ![r] = "ctrl"]
              /\ UNCHANGED <<store, resp, hist>>
         ELSE LET key == <<"tokens", Val(req[r].apiKey)>>
                  cur == IncrementResult(store, key, WindowMs, now)
                  limit == ApiKeyTable[Val(req[r].apiKey)].rateLimitTpm
              IN  /\ store' = StoreAfterIncrement(store, key, WindowMs, now)
                  /\ IF TokenLimitExceeded(cur, estimatedTokens, limit)
                     THEN Respond(r, [hist[r] EXCEPT !.exit = "tpm",
                                        !.tpmWin = Counted(store', key, estimatedTokens)],
                                  429, "token_rate_limit_exceeded", None)
                     ELSE /\ pc' = [pc EXCEPT ![r] = "ctrl"]
                          /\ hist' = [hist EXCEPT ![r].tpmWin =
                                        Counted(store', key, estimatedTokens)]
                          /\ UNCHANGED resp
  /\ UNCHANGED <<adapterVars, factoryVars, disableAuth, active, now, credits, usageLog, req, current, hdr,
                 adapterResp>>

(* ------------------------- the limiter chain --------------------------- *)
\* The window of the IP limiters: 15 * 60 * 1000.
IpWindowMs == 900000

\* Client addresses, and the store key an IP limiter's keyGenerator makes of
\* one: req.ip itself.
Ips == {"10.0.0.1", "10.0.0.2"}
IpKey(ip) == <<"ip", ip>>

\* A limiter: rateLimit(config) with the key its keyGenerator gives.
Limiter(name, windowMs, maxRequests, key) ==
  [name |-> name, windowMs |-> windowMs, maxRequests |-> maxRequests, key |-> key]

\* The limiters a request passes, in order, by route: globalRateLimit is
\* mounted on the app; the auth routes add authRateLimit or
\* strictAuthRateLimit, the chat routes apiKeyRateLimit and tokenRateLimit.
Routes == {"/health", "/auth/login", "/auth/change-password", "/v1/chat/completions"}

Chain(route, ip, k) ==
  LET global == Limiter("global", IpWindowMs, 1000, IpKey(ip))
  IN  CASE route = "/auth/login" ->
             <<global, Limiter("auth", IpWindowMs, 10, IpKey(ip))>>
        [] route = "/auth/change-password" ->
             <<global, Limiter("strictAuth", IpWindowMs, 5, IpKey(ip))>>
        [] route = "/v1/chat/completions" ->
             <<global,
               Limiter("apiKey", WindowMs, ApiKeyTable[k].rateLimitRpm, <<"apikey", k>>),
               Limiter("token", WindowMs, ApiKeyTable[k].rateLimitTpm, <<"tokens", k>>)>>
        [] OTHER -> <<global>>

\* tokenRateLimit compares current + estimatedTokens, the others current.
Exceeded(l, cur, body) ==
  IF l.name = "token" THEN TokenLimitExceeded(cur, estimateTokenUsage(body), l.maxRequests)
  ELSE LimitExceeded(cur, l.maxRequests)

\* Request i goes through the limiter at position `at` of its chain: the
\* store increment, the count the limiter saw, and 429 or next().
PassLimiter(i, e, at) ==
  LET l == Chain(e.route, e.ip, e.key)[at]
      cur == IncrementResult(store, l.key, l.windowMs, now)
      last == at = Len(Chain(e.route, e.ip, e.key))
      seen == [req |-> i, seq |-> Cardinality(edge.passes) + 1, limiter |-> l.name,
               key |-> l.key, count |-> cur,
               resetTime |-> StoreAfterIncrement(store, l.key, l.windowMs, now)[l.key].resetTime]
      after == [e EXCEPT !.at = IF last \/ Exceeded(l, cur, BodyGpt) THEN 0 ELSE at + 1,
                         !.status = IF Exceeded(l, cur, BodyGpt) THEN 429
                                    ELSE IF last THEN 200 ELSE 0]
  IN  /\ store' = StoreAfterIncrement(store, l.key, l.windowMs, now)
      /\ edge' = [reqs |-> [j \in 1..Max(i, Len(edge.reqs)) |->
                              IF j = i THEN after ELSE edge.reqs[j]],
                  passes |-> edge.passes \cup {seen}]

\* A request arrives and goes through globalRateLimit.
EdgeArrive ==
  /\ Len(edge.reqs) < MaxEdgeReqs
  /\ \E ip \in Ips, route \in Routes, k \in Keys :
       /\ route # "/v1/chat/completions" => k = "k1"
       /\ PassLimiter(Len(edge.reqs) + 1,
                      [ip |-> ip, route |-> route, key |-> k, at |-> 1, status |-> 0], 1)
  /\ UNCHANGED <<factoryVars, adapterCall, health, disableAuth, active, now, credits,
                 usageLog, pc, req, current, hdr, resp, adapterResp, hist>>

\* A request that got past a limiter reaches the next one of its route.
EdgeNext ==
  /\ \E i \in 1..Len(edge.reqs) :
       /\ edge.reqs[i].at > 1
       /\ PassLimiter(i, edge.reqs[i], edge.reqs[i].at)
  /\ UNCHANGED <<factoryVars, adapterCall, health, disableAuth, active, now, credits,
                 usageLog, pc, req, current, hdr, resp, adapterResp, hist>>

(* --------------------------- provider factory -------------------------- *)
\* An adapter instance: the provider it serves and which construction it is.
Instance(name, id) == [name |-> name, id |-> id]

\* The outcome of a call of the factory: the cache and the instance count
\* after it, the instance returned (None when it throws) and whether a cached
\* instance was found inactive and removed.
Outcome(cache, n, result, evicted) ==
  [cache |-> cache, created |-> n, result |-> result, evicted |-> evicted]

\* A slip in the factory: the cache is never consulted.
createUncached(cache, n, act, name) ==
  IF name \notin Providers \/ name \notin act
  THEN Outcome(cache, n, None, FALSE)
  ELSE Outcome([cache EXCEPT ![name] = n + 1], n + 1, Some(Instance(name, n + 1)), FALSE)

\* ProviderFactory.create.  A cached instance's isActive() reads the isActive
\* field of the configuration object it was constructed with, which is the
\* entry of PROVIDER_CONFIGS that getProviderByName returns.
create(cache, n, act, name) ==
  IF name \in Providers /\ cache[name] # 0 /\ name \in act
  THEN Outcome(cache, n, Some(Instance(name, cache[name])), FALSE)
  ELSE LET evicted == name \in Providers /\ cache[name] # 0
           cleared == IF evicted THEN [cache EXCEPT ![name] = 0] ELSE cache
       IN  IF name \notin Providers \/ name \notin act
           THEN \* 'Provider configuration not found' / 'Provider is not active'
                Outcome(cleared, n, None, evicted)
           ELSE Outcome([cleared EXCEPT ![name] = n + 1], n + 1,
                        Some(Instance(name, n + 1)), evicted)

\* ProviderFactory.getProviderForModel: the provider chosen, then create.
getProviderForModel(cache, n, act, model) ==
  IF Has(factoryProviderForModel(act, model))
  THEN create(cache, n, act, Val(factoryProviderForModel(act, model)))
  ELSE \* 'No active providers available for model'
       Outcome(cache, n, None, FALSE)

\* The names a caller can pass to create.
ProviderNames == Providers \cup {"azure"}

\* The model names a caller can pass to getProviderForModel: the listed models,
\* the keys of MODEL_PROVIDER_MAP, other names, and the provider names that
\* ChatService.checkProviderHealth passes as models.
ModelNames == MapToOpenAI \cup MapToAnthropic \cup OtherModelNames \cup Providers

\* The factory takes the outcome of a call; act records the providers active
\* when it was made.
Returns(op, arg, out) ==
  /\ providers' = out.cache
  /\ created' = out.created
  /\ ret' = [op |-> op, arg |-> arg, act |-> active, result |-> out.result,
             evicted |-> out.evicted]

\* createProvider(name).
Create ==
  /\ \E name \in ProviderNames :
       LET out == create(providers, created, active, name)
       IN  /\ out.created <= MaxInstances
           /\ Returns("create", name, out)
  /\ UNCHANGED <<pipelineVars, adapterVars, active>>

\* getProviderForModel(model).
Resolve ==
  /\ \E model \in ModelNames :
       LET out == getProviderForModel(providers, created, active, model)
       IN  /\ out.created <= MaxInstances
           /\ Returns("resolve", model, out)
  /\ UNCHANGED <<pipelineVars, adapterVars, active>>

\* The isActive field of a provider's configuration object changes
\* (ProviderConfig.isActive is a plain mutable field).
SetActive ==
  /\ \E p \in Providers :
       active' = IF p \in active THEN active \ {p} ELSE active \cup {p}
  /\ UNCHANGED <<pipelineVars, adapterVars, factoryVars>>

(* ------------------------------ adapters ------------------------------- *)
\* Header names as a caller can write them on the wire.
WireNames ==
  {"Authorization", "authorization", "X-Api-Key", "x-api-key", "Host", "HOST",
   "Content-Type", "X-Custom"}

\* key.toLowerCase(), tabulated over the header names of the model.
Lower(k) ==
  CASE k \in {"Authorization", "authorization"} -> "authorization"
    [] k \in {"X-Api-Key", "x-api-key"} -> "x-api-key"
    [] k \in {"Host", "HOST", "host"} -> "host"
    [] k \in {"Content-Type", "content-type"} -> "content-type"
    [] k \in {"User-Agent", "user-agent"} -> "user-agent"
    [] k \in {"X-Custom", "x-custom"} -> "x-custom"
    [] OTHER -> k

\* The value of every header the caller supplied, and the adapters' own
\* credentials (config.apiKey).
CallerValue == "caller-value"
OwnCredential(p) == IF p = "openai" THEN "Bearer openai-key" ELSE "anthropic-key"

\* req.headers: the caller's headers as the HTTP server hands them over, their
\* names in lower case.
IncomingHeaders(wire) == [k \in {Lower(n) : n \in wire} |-> CallerValue]

\* OpenAIProvider.getHeaders / AnthropicProvider.getHeaders.
getHeaders(p) ==
  IF p = "openai"
  THEN [k \in {"Authorization", "Content-Type", "User-Agent"} |->
          CASE k = "Authorization" -> OwnCredential(p)
            [] k = "Content-Type" -> "application/json"
            [] OTHER -> "OpenAI-Router/1.0.0"]
  ELSE [k \in {"x-api-key", "Content-Type", "anthropic-version", "User-Agent"} |->
          CASE k = "x-api-key" -> OwnCredential(p)
            [] k = "Content-Type" -> "application/json"
            [] k = "anthropic-version" -> "2023-06-01"
            [] OTHER -> "OpenAI-Router/1.0.0"]

\* The header that carries the adapter's credential.
CredentialHeader(p) == IF p = "openai" THEN "Authorization" ELSE "x-api-key"

\* A slip in the merge: the caller's headers are copied without exception.
mergeHeadersCallerWins(baseHeaders, userHeaders) ==
  IF Has(userHeaders)
  THEN [k \in DOMAIN baseHeaders \cup DOMAIN Val(userHeaders) |->
          IF k \in DOMAIN Val(userHeaders) THEN Val(userHeaders)[k] ELSE baseHeaders[k]]
  ELSE baseHeaders

\* mergeHeaders of both adapters: the caller's headers over the adapter's,
\* except authorization and x-api-key; then Host and host are deleted.
mergeHeaders(baseHeaders, userHeaders) ==
  LET user == IF Has(userHeaders) THEN Val(userHeaders) ELSE [k \in {} |-> ""]
      kept == {k \in DOMAIN user : Lower(k) \notin {"authorization", "x-api-key"}}
  IN  [k \in (DOMAIN baseHeaders \cup kept) \ {"Host", "host"} |->
         IF k \in kept THEN user[k] ELSE baseHeaders[k]]

\* An adapter builds the headers of an upstream request from the headers of a
\* caller's request, or from none.
MergeHeaders ==
  /\ \E p \in Providers, wire \in SUBSET WireNames, given \in BOOLEAN :
       LET userHeaders == IF given THEN Some(IncomingHeaders(wire)) ELSE None
       IN  /\ ~given => wire = {}
           /\ adapterCall' = [op |-> "mergeHeaders", provider |-> p,
                              userHeaders |-> userHeaders,
                              headers |-> mergeHeaders(getHeaders(p), userHeaders)]
  /\ UNCHANGED <<pipelineVars, factoryVars, active, health, edge>>

\* The max_tokens values a request handed to an adapter may carry: absent,
\* and numbers on both sides of each limit the adapters test.
MaxTokensValues ==
  {None, Some(-1), Some(0), Some(1), Some(4096), Some(4097), Some(100000), Some(100001)}

\* The requests handed to validateRequest of the adapter of provider p.
AdapterRequests(p) ==
  { Body(messages, prompt, model, maxTokens, FALSE) :
      messages \in {None, Some(<<Msg("user", 8, 2)>>)},
      prompt \in {None},
      model \in {None, Some("bogus-model"),
                 Some(IF p = "openai" THEN "gpt-3.5-turbo" ELSE "claude-2.0")},
      maxTokens \in MaxTokensValues }
    \cup { Body(None, Some(12), None, Some(58), FALSE) }

\* An adapter's validateRequest is applied to a request.
ValidateRequest ==
  /\ \E p \in Providers :
       \E request \in AdapterRequests(p) :
          adapterCall' = [op |-> "validateRequest", provider |-> p,
                          request |-> request, ok |-> adapterValid(p, request)]
  /\ UNCHANGED <<pipelineVars, factoryVars, active, health, edge>>

\* The 2xx bodies an OpenAI-compatible upstream may answer with: `choices`
\* absent, empty or holding choices with or without an index; with or
\* without usage.
OpenAIBodies ==
  { [choices |-> choices, usage |-> usage] :
      choices \in {None, Some(<<>>), Some(<<[index |-> None]>>),
                   Some(<<[index |-> Some(0)]>>),
                   Some(<<[index |-> Some(0)]>>  \o <<[index |-> None]>>)},
      usage \in {None, Some(Usage(40, 10, 50))} }

\* The 2xx bodies the Anthropic upstream may answer with: `content` absent or
\* a list of text and tool_use items; with or without usage.
AnthropicBodies ==
  { [content |-> content, usage |-> usage] :
      content \in {None, Some(<<>>), Some(<<"text">>), Some(<<"tool_use">>),
                   Some(<<"text", "tool_use">>)},
      usage \in {None, Some([input_tokens |-> 40, output_tokens |-> 10])} }

\* OpenAIProvider.transformResponse: `choices: response.choices || []`, each
\* choice mapped with its index or its position.
openaiTransformResponse(response) ==
  LET choices == IF Has(response.choices) THEN Val(response.choices) ELSE <<>>
  IN  Some([choices |-> [i \in 1..Len(choices) |->
                           [index |-> IF Has(choices[i].index)
                                      THEN Val(choices[i].index) ELSE i - 1]],
            usage |-> response.usage])

\* AnthropicProvider.transformResponse: iterating `response.content` or
\* reading `response.usage.input_tokens` throws a TypeError when the field is
\* absent (None: nothing is returned); otherwise one choice.
anthropicTransformResponse(response) ==
  IF ~Has(response.content) \/ ~Has(response.usage) THEN None
  ELSE Some([choices |-> <<[index |-> 0]>>,
             usage |-> Some(Usage(Val(response.usage).input_tokens,
                                  Val(response.usage).output_tokens,
                                  Val(response.usage).input_tokens
                                    + Val(response.usage).output_tokens))])

\* transformResponse of the adapter of provider p.
transformResponse(p, response) ==
  IF p = "openai" THEN openaiTransformResponse(response)
  ELSE anthropicTransformResponse(response)

\* An adapter's transformResponse is applied to the body of a 2xx response;
\* chatCompletion returns its result, or throws what it threw.
TransformResponse ==
  /\ \E p \in Providers :
       \E response \in (IF p = "openai" THEN OpenAIBodies ELSE AnthropicBodies) :
          adapterCall' = [op |-> "transformResponse", provider |-> p,
                          response |-> response,
                          result |-> transformResponse(p, response)]
  /\ UNCHANGED <<pipelineVars, factoryVars, active, health, edge>>

\* Texts, as sequences of characters: the empty string and two others.
Texts == {<<>>, <<"h">>, <<"h", "i">>}

\* A canonical message with string content.
TextMessage(role, text) == [role |-> role, content |-> text]

\* The single-turn, text-only canonical requests: one user message, with or
\* without a system message in front of it.
TextRequests ==
  { [messages |-> <<TextMessage("user", t)>>] : t \in Texts }
    \cup { [messages |-> <<TextMessage("system", s), TextMessage("user", t)>>] :
             s \in Texts, t \in Texts }

\* AnthropicProvider.transformMessage for string content: the role is kept
\* for user, anything else becomes assistant; the content is passed on.
transformMessage(message) ==
  [role |-> IF message.role = "user" THEN "user" ELSE "assistant",
   content |-> message.content]

\* AnthropicProvider.transformRequest on the messages: system messages are
\* taken out, user and assistant messages are transformed in order.
anthropicTransformRequest(request) ==
  LET kept == SelectSeq(request.messages, LAMBDA m : m.role \in {"user", "assistant"})
  IN  [messages |-> [i \in 1..Len(kept) |-> transformMessage(kept[i])]]

\* The content lists of text-only upstream responses: text items, whose text
\* may be missing.
TextItems == {[type |-> "text", text |-> t] : t \in {None} \cup {Some(x) : x \in Texts}}

TextContents == {<<>>} \cup {<<i>> : i \in TextItems} \cup {<<i, j>> : i \in TextItems, j \in TextItems}

\* The text of an upstream response: its text items joined (`item.text || ''`).
RECURSIVE UpstreamText(_)
UpstreamText(items) ==
  IF items = <<>> THEN <<>>
  ELSE (IF Has(Head(items).text) THEN Val(Head(items).text) ELSE <<>>)
         \o UpstreamText(Tail(items))

\* AnthropicProvider.transformResponse: the content of the canonical message,
\* `content || null` (None stands for null).
anthropicMessageContent(items) ==
  IF UpstreamText(items) = <<>> THEN None ELSE Some(UpstreamText(items))

\* A text-only exchange goes through the Anthropic adapter: the request is
\* transformed, the upstream answers, the response is transformed back.
RoundTrip ==
  /\ \E request \in TextRequests, items \in TextContents :
       adapterCall' = [op |-> "roundTrip", provider |-> "anthropic",
                       request |-> request,
                       payload |-> anthropicTransformRequest(request),
                       items |-> items,
                       content |-> anthropicMessageContent(items)]
  /\ UNCHANGED <<pipelineVars, factoryVars, active, health, edge>>

(* ----------------------------- health check ---------------------------- *)
\* getAllProviders: create(config.name) for every active provider in
\* configured order; a provider whose create throws is left out.
RECURSIVE getAllProviders(_, _, _, _)
getAllProviders(cache, n, act, names) ==
  IF names = <<>> THEN [cache |-> cache, created |-> n, instances |-> {}]
  ELSE LET out == create(cache, n, act, Head(names))
           rest == getAllProviders(out.cache, out.created, act, Tail(names))
       IN  [rest EXCEPT !.instances =
              @ \cup (IF Has(out.result) THEN {Head(names)} ELSE {})]

\* A slip in getHealth: a failed probe is reported healthy.
getHealthIgnoringFailure(res, latency) ==
  [healthy |-> TRUE, latency |-> latency, error |-> None]

\* BaseProvider.getHealth once `await this.chatCompletion(testRequest)` has
\* settled to res: healthy when it resolved, unhealthy with the error message
\* when it threw; never rejects.
getHealth(res, latency) ==
  IF res.kind = "ok"
  THEN [healthy |-> TRUE, latency |-> latency, error |-> None]
  ELSE [healthy |-> FALSE, latency |-> latency, error |-> Some(res.kind)]

\* ProviderFactory.healthCheck up to `await Promise.all(healthChecks)`: every
\* provider's getHealth runs to its axios.post, so all synthetic requests are
\* in flight together.
HealthCheck ==
  /\ health.phase = "idle"
  /\ LET all == getAllProviders(providers, created, active, ActiveInOrder(active))
     IN  /\ providers' = all.cache
         /\ created' = all.created
         /\ health' = [phase |-> "running", startTime |-> now,
                       probed |-> all.instances, pending |-> all.instances,
                       calls |-> [p \in all.instances |-> 1],
                       outcome |-> [p \in {} |-> 0],
                       results |-> [p \in {} |-> 0], returned |-> None]
  /\ UNCHANGED <<pipelineVars, active, ret, adapterCall, edge>>

\* The synthetic request of one provider settles (a response, an error, or
\* the adapter's timeout) and its getHealth writes results[provider.name].
ProbeSettles ==
  /\ health.phase = "running"
  /\ \E p \in health.pending, res \in UpstreamResults :
       health' = [health EXCEPT
                    !.pending = @ \ {p},
                    !.outcome = [q \in DOMAIN @ \cup {p} |-> IF q = p THEN res ELSE @[q]],
                    !.results = [q \in DOMAIN @ \cup {p} |->
                                   IF q = p THEN getHealth(res, now - health.startTime)
                                   ELSE @[q]]]
  /\ UNCHANGED <<pipelineVars, factoryVars, active, adapterCall, edge>>

\* Promise.all resolves once every getHealth has: healthCheck returns results.
HealthReturn ==
  /\ health.phase = "running"
  /\ health.pending = {}
  /\ health' = [health EXCEPT !.phase = "returned", !.returned = Some(health.results)]
  /\ UNCHANGED <<pipelineVars, factoryVars, active, adapterCall, edge>>

(* ---------------------------- orchestrator ----------------------------- *)
\* ChatController.getUserAndApiKey.
CallerUserId(r) ==
  IF disableAuth THEN "dev-user" ELSE ApiKeyTable[Val(req[r].apiKey)].userId

CallerApiKeyId(r) == IF disableAuth THEN "dev-api-key" ELSE Val(req[r].apiKey)

\* createCompletion: `request.model || this.getDefaultModel()`.
ResolvedModel(r) ==
  IF Has(req[r].body.model) THEN Val(req[r].body.model) ELSE Val(getDefaultModel(active))

\* createCompletion: the adapter the factory returns for the model.
AdapterOf(r) == Val(factoryProviderForModel(active, ResolvedModel(r)))

\* createCompletion: provider.estimateTokens(request).
EstimatedTokens(r) == providerEstimateTokens(AdapterOf(r), req[r].body)

\* createCompletion: the 70 / 30 split of the estimate.
EstimatedUsage(r) ==
  Usage(Floor70(EstimatedTokens(r)), Floor30(EstimatedTokens(r)), EstimatedTokens(r))

\* createCompletion: the pre-flight cost of the estimate.
EstimatedCost(r) ==
  calculateCost(getProviderNameForModel(ResolvedModel(r)), ResolvedModel(r),
                EstimatedUsage(r).prompt_tokens, EstimatedUsage(r).completion_tokens)

\* A slip in the balance check: any positive balance passes.
HasCreditsAnyBalance(balance, estimatedCost) == balance > 0

\* UsageService.checkUserCredits: `user.credits >= estimatedCost`.
HasCredits(balance, estimatedCost) == balance >= estimatedCost

\* A usage_logs row; req is the row's identity.
UsageRecord(r, provider, model, usage, cost, success) ==
  [req |-> r, userId |-> CallerUserId(r), apiKeyId |-> CallerApiKeyId(r),
   provider |-> provider, model |-> model,
   promptTokens |-> usage.prompt_tokens, completionTokens |-> usage.completion_tokens,
   totalTokens |-> usage.total_tokens, cost |-> cost, success |-> success]

\* UsageService.logUsage: `if (!logData.cost) logData.cost = calculateCost(...)`.
LogDataCost(rec) ==
  IF rec.cost = 0
  THEN calculateCost(rec.provider, rec.model, rec.promptTokens, rec.completionTokens)
  ELSE rec.cost

\* A slip in the catch block: the failure is logged with the estimated usage.
FailureRecordWithEstimate(r) ==
  UsageRecord(r,
              IF Has(req[r].body.model) THEN getProviderNameForModel(Val(req[r].body.model))
              ELSE "unknown",
              IF Has(req[r].body.model) THEN Val(req[r].body.model) ELSE "unknown",
              Usage(7, 3, 10), 0, FALSE)

\* The record createCompletion's catch block hands to logUsage.
FailureRecord(r) ==
  UsageRecord(r,
              IF Has(req[r].body.model) THEN getProviderNameForModel(Val(req[r].body.model))
              ELSE "unknown",
              IF Has(req[r].body.model) THEN Val(req[r].body.model) ELSE "unknown",
              Usage(0, 0, 0), 0, FALSE)

\* UsageModel.create: the INSERT succeeds when the database accepts it (dbOk) and
\* the row's foreign keys exist.
CreateSucceeds(rec, dbOk) == dbOk /\ rec.userId \in Users /\ rec.apiKeyId \in Keys

\* usage_logs after logUsage(rec).
LogAfter(log, rec, dbOk) ==
  IF CreateSucceeds(rec, dbOk) THEN log \cup {[rec EXCEPT !.cost = LogDataCost(rec)]}
  ELSE log

\* createCompletion's catch block: one logUsage of the failure record (whose
\* own failure is swallowed), then the error is rethrown to errorHandler.
Catch(r, h, exit, status, code, dbOk) ==
  /\ usageLog' = LogAfter(usageLog, FailureRecord(r), dbOk)
  /\ Respond(r, [h EXCEPT !.exit = exit, !.sinkWrites = @ + 1], status, code, None)

\* A slip in the controller: the stream flag is not looked at.
StreamIgnored(body) == FALSE

\* createChatCompletion: `if (request.stream)`.
StreamRequested(body) == body.stream

\* ChatController.createChatCompletion and ChatService.createCompletion up to
\* the upstream HTTP call of provider.chatCompletion.  Past validation the
\* model is resolved (getDefaultModel throws a provider error when no model is
\* available) and the factory is asked for the adapter.
Orchestrate(r) ==
  /\ pc[r] = "ctrl"
  /\ \E dbOk \in BOOLEAN :
       LET body == req[r].body
           out == getProviderForModel(providers, created, active, ResolvedModel(r))
           resolved == Returns("resolve", ResolvedModel(r), out)
           h == [hist[r] EXCEPT !.model = Some(ResolvedModel(r))]
       IN  IF StreamRequested(body)
           THEN /\ dbOk
                /\ Finish(r, "stream", 400, "streaming_not_supported", None)
                /\ UNCHANGED <<usageLog, factoryVars>>
           ELSE IF ~orchestratorValid(active, body)
           THEN /\ Catch(r, hist[r], "validation", 400, "validation_failed", dbOk)
                /\ UNCHANGED factoryVars
           ELSE IF ~Has(body.model) /\ ~Has(getDefaultModel(active))
           THEN /\ Catch(r, hist[r], "nomodel", 502, "provider_request_failed", dbOk)
                /\ UNCHANGED factoryVars
           ELSE IF CallerUserId(r) \notin Users
           THEN /\ Catch(r, h, "nouser", 404, "resource_not_found", dbOk)
                /\ resolved
           ELSE IF ~HasCredits(credits[CallerUserId(r)], EstimatedCost(r))
           THEN /\ Catch(r, h, "credits", 400, "validation_failed", dbOk)
                /\ resolved
           ELSE IF ~adapterValid(AdapterOf(r), [body EXCEPT !.model = Some(ResolvedModel(r))])
           THEN \* provider.validateRequest throws `new Error(...)` inside
                \* chatCompletion's try block, before axios.post
                /\ Catch(r, [h EXCEPT !.dispatched = TRUE, !.err = Some(PlainError)],
                         "adapter", errorHandler(PlainError).status,
                         errorHandler(PlainError).code, dbOk)
                /\ resolved
           ELSE /\ dbOk
                /\ pc' = [pc EXCEPT ![r] = "upstream"]
                /\ hist' = [hist EXCEPT ![r] = [h EXCEPT !.dispatched = TRUE,
                                                      !.upstreamCalls = @ + 1]]
                /\ UNCHANGED <<usageLog, resp>>
                /\ resolved
  /\ UNCHANGED <<adapterVars, disableAuth, active, now, store, credits, req, current,
                 hdr, adapterResp>>

\* createCompletion: `response.usage || {70 / 30 split of the estimate}`.
ActualUsage(r, response) ==
  IF Has(response.usage) THEN Val(response.usage) ELSE EstimatedUsage(r)

\* createCompletion: the cost of the actual usage.
ActualCost(r, response) ==
  calculateCost(getProviderNameForModel(ResolvedModel(r)), ResolvedModel(r),
                ActualUsage(r, response).prompt_tokens,
                ActualUsage(r, response).completion_tokens)

\* The record createCompletion hands to logUsage after a successful dispatch.
SuccessRecord(r, response) ==
  UsageRecord(r, getProviderNameForModel(ResolvedModel(r)), ResolvedModel(r),
              ActualUsage(r, response), ActualCost(r, response), TRUE)

\* The canonical response the adapter returns for an upstream 2xx body.
AdapterResponse(r, res) == [id |-> r, usage |-> res.usage]

\* A slip in the orchestrator: a call that settled is sent again (the
\* configured `retries`) before its result is looked at.
UpstreamReturnRetrying(r) ==
  /\ pc[r] = "upstream"
  /\ hist[r].upstreamCalls < 3
  /\ hist' = [hist EXCEPT ![r].upstreamCalls = @ + 1]
  /\ UNCHANGED <<adapterVars, factoryVars, disableAuth, active, now, store, credits,
                 usageLog, pc, req, current, hdr, resp, adapterResp>>

\* provider.chatCompletion settles; on success createCompletion runs on to
\* logUsage's `await this.usageModel.create(logData)`.
UpstreamReturn(r) ==
  /\ pc[r] = "upstream"
  /\ \E res \in UpstreamResults, dbOk \in BOOLEAN, dbOk2 \in BOOLEAN :
       IF res.kind = "ok"
       THEN LET response == AdapterResponse(r, res)
                rec == SuccessRecord(r, response)
            IN  /\ adapterResp' = [adapterResp EXCEPT ![r] = Some(response)]
                /\ IF CreateSucceeds(rec, dbOk)
                   THEN /\ dbOk2
                        /\ usageLog' = LogAfter(usageLog, rec, dbOk)
                        /\ IF LogDataCost(rec) > 0
                           THEN /\ pc' = [pc EXCEPT ![r] = "debit"]
                                /\ hist' = [hist EXCEPT ![r].sinkWrites = @ + 1]
                                /\ UNCHANGED resp
                           ELSE Respond(r, [hist[r] EXCEPT !.exit = "ok",
                                              !.sinkWrites = @ + 1],
                                        200, "", Some(response))
                   ELSE \* logUsage rethrows: createCompletion's catch block runs
                        Catch(r, [hist[r] EXCEPT !.sinkWrites = @ + 1],
                              "sink", 500, "internal_error", dbOk2)
       ELSE \* chatCompletion throws: createCompletion's catch block runs and
            \* the error reaches errorHandler
            LET error == chatCompletionError(AdapterOf(r), res)
                out == errorHandler(error)
            IN  /\ dbOk2
                /\ UNCHANGED adapterResp
                /\ Catch(r, [hist[r] EXCEPT !.upstream = Some(res), !.err = Some(error)],
                         "upstream", out.status, out.code, dbOk)
  /\ UNCHANGED <<adapterVars, factoryVars, disableAuth, active, now, store, credits, req, current, hdr>>

\* A slip in updateCredits: the UPDATE has no `credits + ? >= 0` condition.
UpdateAppliesUnguarded(balance, amount, dbOk) == dbOk

\* UserModel.updateCredits: the UPDATE changes a row when the database accepts
\* it (dbOk) and `credits + amount >= 0`.
UpdateApplies(balance, amount, dbOk) == dbOk /\ balance + amount >= 0

\* A slip in logUsage: the failure of updateCredits is not caught, so it
\* reaches createCompletion's catch block and the request fails.
DebitUncaught(r) ==
  /\ pc[r] = "debit"
  /\ \E dbOk \in BOOLEAN :
       LET cost == LogDataCost(SuccessRecord(r, Val(adapterResp[r])))
           user == CallerUserId(r)
       IN  IF UpdateApplies(credits[user], -cost, dbOk)
           THEN /\ credits' = [credits EXCEPT ![user] = @ - cost]
                /\ usageLog' = usageLog
                /\ Respond(r, [hist[r] EXCEPT !.exit = "ok", !.debit = "ok"],
                           200, "", adapterResp[r])
           ELSE /\ UNCHANGED credits
                /\ Catch(r, [hist[r] EXCEPT !.debit = "failed"],
                         "sink", 500, "internal_error", dbOk)
  /\ UNCHANGED <<adapterVars, factoryVars, disableAuth, active, now, store, req, current, hdr, adapterResp>>

\* logUsage after the usage row is written: `if (logData.cost > 0)` the debit,
\* whose failure is caught and logged; createCompletion then returns response.
Debit(r) ==
  /\ pc[r] = "debit"
  /\ \E dbOk \in BOOLEAN :
       LET cost == LogDataCost(SuccessRecord(r, Val(adapterResp[r])))
           user == CallerUserId(r)
       IN  IF UpdateApplies(credits[user], -cost, dbOk)
           THEN /\ credits' = [credits EXCEPT ![user] = @ - cost]
                /\ Respond(r, [hist[r] EXCEPT !.exit = "ok", !.debit = "ok"],
                           200, "", adapterResp[r])
           ELSE /\ UNCHANGED credits
                /\ Respond(r, [hist[r] EXCEPT !.exit = "ok", !.debit = "failed"],
                           200, "", adapterResp[r])
  /\ UNCHANGED <<adapterVars, factoryVars, disableAuth, active, now, store, usageLog, req, current, hdr,
                 adapterResp>>

Next ==
  \/ \E r \in Reqs : Arrive(r)
  \/ \E r \in Reqs : RpmIncrement(r)
  \/ \E r \in Reqs : RpmCheck(r)
  \/ \E r \in Reqs : TokenRateLimit(r)
  \/ \E r \in Reqs : Orchestrate(r)
  \/ \E r \in Reqs : UpstreamReturn(r)
  \/ \E r \in Reqs : Debit(r)
  \/ Tick
  \/ Cleanup

Spec == Init /\ [][Next]_vars

\* The rate limiters alone: requests stop when they reach the route handler.
NextRL ==
  \/ \E r \in Reqs : ArriveRL(r)
  \/ \E r \in Reqs : RpmIncrement(r)
  \/ \E r \in Reqs : RpmCheck(r)
  \/ \E r \in Reqs : TokenRateLimit(r)
  \/ Tick
  \/ Cleanup

SpecRL == InitRL /\ [][NextRL]_vars

\* The pipeline at one instant under any provider configuration, the
\* rate-limit store as constructed.
InitCfg ==
  /\ disableAuth \in BOOLEAN
  /\ active \in SUBSET Providers
  /\ now = 0
  /\ store = EmptyStore
  /\ credits = AmpleCredits
  /\ usageLog = {}
  /\ pc = [r \in 1..MaxReqs |-> "new"]
  /\ req = [r \in 1..MaxReqs |-> NoReq]
  /\ current = [r \in 1..MaxReqs |-> 0]
  /\ hdr = [r \in 1..MaxReqs |-> NoHdr]
  /\ resp = [r \in 1..MaxReqs |-> NoResp]
  /\ adapterResp = [r \in 1..MaxReqs |-> None]
  /\ hist = [r \in 1..MaxReqs |-> NoHist]
  /\ providers = EmptyCache
  /\ created = 0
  /\ ret = NoRet
  /\ adapterCall = NoCall
  /\ health = NoHealth
  /\ edge = NoEdge

NextCfg ==
  \/ \E r \in Reqs : Arrive(r)
  \/ \E r \in Reqs : RpmIncrement(r)
  \/ \E r \in Reqs : RpmCheck(r)
  \/ \E r \in Reqs : TokenRateLimit(r)
  \/ \E r \in Reqs : Orchestrate(r)
  \/ \E r \in Reqs : UpstreamReturn(r)
  \/ \E r \in Reqs : Debit(r)

SpecCfg == InitCfg /\ [][NextCfg]_vars

\* The provider factory alone: no request is in the pipeline, any set of
\* providers is active at the start.
InitFactory ==
  /\ disableAuth = FALSE
  /\ active \in SUBSET Providers
  /\ now = 0
  /\ store = EmptyStore
  /\ credits = InitialCredits
  /\ usageLog = {}
  /\ pc = <<>> /\ req = <<>> /\ current = <<>> /\ hdr = <<>>
  /\ resp = <<>> /\ adapterResp = <<>> /\ hist = <<>>
  /\ providers = EmptyCache
  /\ created = 0
  /\ ret = NoRet
  /\ adapterCall = NoCall
  /\ health = NoHealth
  /\ edge = NoEdge

NextFactory ==
  \/ Create
  \/ Resolve
  \/ SetActive

SpecFactory == InitFactory /\ [][NextFactory]_vars

\* The adapters' methods on their own, applied to any input.
InitAdapter == InitFactory /\ active = Providers

NextAdapter ==
  \/ MergeHeaders
  \/ ValidateRequest
  \/ TransformResponse
  \/ RoundTrip

SpecAdapter == InitAdapter /\ [][NextAdapter]_vars

\* Concurrent completions of one user, with no top-up: the pipeline without
\* the clock.
InitLedger == InitWith(MaxLedgerReqs, {EmptyStore}) /\ ~disableAuth

NextLedger ==
  \/ \E r \in Reqs : ArriveLedger(r)
  \/ \E r \in Reqs : RpmIncrement(r)
  \/ \E r \in Reqs : RpmCheck(r)
  \/ \E r \in Reqs : TokenRateLimit(r)
  \/ \E r \in Reqs : Orchestrate(r)
  \/ \E r \in Reqs : UpstreamReturn(r)
  \/ \E r \in Reqs : Debit(r)

SpecLedger == InitLedger /\ [][NextLedger]_vars

\* The chain of rate limiters on its own: requests to any route from any
\* address, within one window of every limiter.
InitEdge == InitFactory

NextEdge ==
  \/ EdgeArrive
  \/ EdgeNext

SpecEdge == InitEdge /\ [][NextEdge]_vars

\* The health check on its own, under any provider configuration, while time
\* passes.
InitHealth == InitFactory

NextHealth ==
  \/ HealthCheck
  \/ ProbeSettles
  \/ HealthReturn
  \/ Tick

SpecHealth == InitHealth /\ [][NextHealth]_vars

TypeOK ==
  /\ disableAuth \in BOOLEAN
  /\ active \subseteq Providers
  /\ now \in 0..(MaxTicks * TickMs)
  /\ DOMAIN store \subseteq StoreKeys \cup {IpKey(ip) : ip \in Ips}
  /\ \A u \in Users : credits[u] \in Int
  /\ \A r \in Reqs : pc[r] \in {"new", "rpm", "rpmChk", "tpm", "ctrl", "upstream", "debit", "done"}
  /\ \A p \in Providers : providers[p] \in 0..created
  /\ ret.op \in {"none", "create", "resolve"}

(* ------------------------------ properties ----------------------------- *)
\* The rows a request wrote to usage_logs.
RowsOf(r) == {rec \in usageLog : rec.req = r}

\* The request went through apiKeyRateLimit's increment.
RpmCounted(r) == hist[r].rpmWin # NoWin

\* The request went through tokenRateLimit's increment.
TpmCounted(r) == hist[r].tpmWin # NoWin

\* The request's RPM admission check has run.
RpmDecided(r) == RpmCounted(r) /\ pc[r] \notin {"rpm", "rpmChk"}

RpmLimitOf(r) == ApiKeyTable[Val(req[r].apiKey)].rateLimitRpm
TpmLimitOf(r) == ApiKeyTable[Val(req[r].apiKey)].rateLimitTpm

\* C1: a request rejected by orchestrator validation, by the RPM or TPM limiter
\* (its post-increment count, or count plus estimate, is over the key's limit)
\* or by the credit check never reaches provider.chatCompletion and causes no
\* upstream HTTP call.
C1_RejectedNeverReachesUpstream ==
  \A r \in Reqs :
    ( \/ hist[r].exit \in {"validation", "rpm", "tpm", "credits"}
      \/ RpmDecided(r) /\ hist[r].rpmWin.count > RpmLimitOf(r)
      \/ TpmCounted(r) /\ hist[r].tpmWin.count + hist[r].tpmWin.tokens > TpmLimitOf(r) )
    => /\ hist[r].upstreamCalls = 0
       /\ ~hist[r].dispatched
       /\ pc[r] = "done"
       /\ resp[r].status \in {400, 429}

\* A request over its key's RPM limit was answered 429 without an upstream call.
C1_Witness ==
  \E r \in Reqs :
    /\ hist[r].exit = "rpm"
    /\ hist[r].rpmWin.count > RpmLimitOf(r)
    /\ resp[r].status = 429
    /\ hist[r].upstreamCalls = 0

\* C2 (as claimed): every finished orchestration that invoked the adapter's
\* chatCompletion made exactly one usage-sink write, and after a failed dispatch
\* the rows written have zero tokens and zero cost.
C2_ExactlyOneSinkWrite ==
  \A r \in Reqs :
    (pc[r] = "done" /\ hist[r].dispatched) =>
      /\ hist[r].sinkWrites = 1
      /\ ~Has(adapterResp[r]) =>
           \A rec \in RowsOf(r) :
              /\ rec.promptTokens = 0 /\ rec.completionTokens = 0
              /\ rec.totalTokens = 0 /\ rec.cost = 0

\* C3 (as claimed): a request that fails orchestrator validation writes no
\* usage record.
C3_NoUsageOnValidationFailure ==
  \A r \in Reqs :
    hist[r].exit = "validation" => (hist[r].sinkWrites = 0 /\ RowsOf(r) = {})

\* C3 (amended): a request that fails orchestrator validation makes no upstream
\* call and no debit, and writes at most one usage record, which is a failure
\* record (success = false) with zero tokens and zero cost.
C3_ValidationFailureWritesZeroRecord ==
  \A r \in Reqs :
    hist[r].exit = "validation" =>
      /\ hist[r].upstreamCalls = 0
      /\ hist[r].debit = "none"
      /\ hist[r].sinkWrites <= 1
      /\ Cardinality(RowsOf(r)) <= 1
      /\ \A rec \in RowsOf(r) :
            /\ ~rec.success
            /\ rec.promptTokens = 0 /\ rec.completionTokens = 0
            /\ rec.totalTokens = 0 /\ rec.cost = 0

\* A validation failure left a failure row in usage_logs.
C3_Witness ==
  \E r \in Reqs :
    /\ hist[r].exit = "validation"
    /\ resp[r].status = 400
    /\ \E rec \in RowsOf(r) : ~rec.success /\ rec.cost = 0

\* C4: when the orchestrator checks a valid request of a caller whose balance is
\* below the request's estimated cost, that step ends the orchestration: the
\* adapter is not invoked, no upstream call is made, the balance is unchanged and
\* every usage row the step writes has cost 0.
C4_InsufficientCreditsShortCircuits ==
  [][ \A r \in Reqs :
        ( /\ pc[r] = "ctrl" /\ pc'[r] # "ctrl"
          /\ ~req[r].body.stream
          /\ orchestratorValid(active, req[r].body)
          /\ CallerUserId(r) \in Users
          /\ credits[CallerUserId(r)] < EstimatedCost(r) )
        => /\ pc'[r] = "done"
           /\ hist'[r].exit = "credits"
           /\ ~hist'[r].dispatched
           /\ hist'[r].upstreamCalls = 0
           /\ hist'[r].debit = "none"
           /\ credits' = credits
           /\ \A rec \in usageLog' \ usageLog : rec.cost = 0 ]_vars

\* A caller with balance below the estimated cost was turned away.
C4_Witness ==
  \E r \in Reqs :
    /\ hist[r].exit = "credits"
    /\ credits[CallerUserId(r)] < EstimatedCost(r)
    /\ credits = InitialCredits
    /\ hist[r].upstreamCalls = 0

\* C5: when the debit after a successful dispatch fails, the request still ends
\* with status 200 and the adapter's response as its body.
C5_DebitFailureIsNotFatal ==
  \A r \in Reqs :
    hist[r].debit = "failed" =>
      /\ pc[r] = "done"
      /\ Has(adapterResp[r])
      /\ resp[r].status = 200
      /\ resp[r].body = adapterResp[r]

\* A debit failed and the caller got the completion.
C5_Witness ==
  \E r \in Reqs :
    /\ hist[r].debit = "failed"
    /\ resp[r].status = 200
    /\ resp[r].body = adapterResp[r]
    /\ credits = InitialCredits

\* C6 (as claimed): once the adapter has returned a successful response, the
\* finished request carries that response, whether or not the usage write
\* succeeded.
C6_UsageWriteIsFireAndForget ==
  \A r \in Reqs :
    (pc[r] = "done" /\ Has(adapterResp[r])) =>
      /\ resp[r].status = 200
      /\ resp[r].body = adapterResp[r]

\* The request's API key id.
KeyOf(r) == Val(req[r].apiKey)

\* The requests whose increment fell into the window of store key sk that
\* resets at time w.
IncrementsIn(sk, w) ==
  {r \in Reqs :
     /\ Has(req[r].apiKey) /\ KeyOf(r) = sk[2]
     /\ IF sk[1] = "apikey"
        THEN RpmCounted(r) /\ hist[r].rpmWin.resetTime = w
        ELSE TpmCounted(r) /\ hist[r].tpmWin.resetTime = w}

\* The requests admitted by the RPM limiter in the window of key k resetting at w.
RpmAdmittedIn(k, w) ==
  {r \in IncrementsIn(<<"apikey", k>>, w) : RpmDecided(r) /\ hist[r].exit # "rpm"}

\* C7: the RPM limiter answers a request 429, without passing it on, exactly
\* when the post-increment count of its key exceeds the key's rateLimitRpm; so
\* in every window of every key at most rateLimitRpm requests are admitted.
C7_RpmAdmission ==
  /\ \A r \in Reqs :
        RpmDecided(r) =>
          ( (pc[r] = "done" /\ hist[r].exit = "rpm" /\ resp[r].status = 429)
            <=> hist[r].rpmWin.count > RpmLimitOf(r) )
  /\ \A r \in Reqs :
        RpmCounted(r) =>
          Cardinality(RpmAdmittedIn(KeyOf(r), hist[r].rpmWin.resetTime)) <= RpmLimitOf(r)

\* A key's window holds an admitted request and a rejected one: the limit was
\* reached and enforced.
C7_Witness ==
  \E r, q \in Reqs :
    /\ RpmDecided(r) /\ RpmDecided(q)
    /\ KeyOf(r) = KeyOf(q)
    /\ hist[r].rpmWin.resetTime = hist[q].rpmWin.resetTime
    /\ hist[r].exit # "rpm" /\ hist[r].rpmWin.count = RpmLimitOf(r)
    /\ hist[q].exit = "rpm" /\ resp[q].status = 429

\* C8 (state part): a live entry's count is the number of increments made in its
\* window, and the remaining a request is told is max(0, limit - N), N being the
\* increments of its window up to its own.
C8_CountIsIncrements ==
  /\ \A sk \in DOMAIN store :
        store[sk].count = Cardinality(IncrementsIn(sk, store[sk].resetTime))
  /\ \A r \in Reqs :
        "X-RateLimit-Remaining" \in DOMAIN hdr[r] =>
          hdr[r]["X-RateLimit-Remaining"] =
            Max(0, RpmLimitOf(r) -
                   Cardinality({q \in IncrementsIn(<<"apikey", KeyOf(r)>>,
                                                   hist[r].rpmWin.resetTime) :
                                  hist[q].rpmWin.count <= hist[r].rpmWin.count}))

\* C8 (step part): an increment of a key whose window has not expired adds 1 and
\* keeps the window; an increment of an absent key or after now > resetTime
\* gives count 1 and a window that resets at now + windowMs.
C8_IncrementStep ==
  \A sk \in StoreKeys :
    (sk \in DOMAIN store' /\ (sk \notin DOMAIN store \/ store'[sk] # store[sk])) =>
      IF sk \in DOMAIN store /\ ~(now > store[sk].resetTime)
      THEN store'[sk] = [count |-> store[sk].count + 1, resetTime |-> store[sk].resetTime]
      ELSE store'[sk] = [count |-> 1, resetTime |-> now + WindowMs]

\* C8: fixed-window counter math.
C8_WindowMath == []C8_CountIsIncrements /\ [][C8_IncrementStep]_vars

\* A request was counted first in the window opened at time 0 and was told the
\* remaining of that count; after that window had expired, the next increment
\* of the same key returned 1 and opened a new window.
C8_Witness ==
  \E r, q \in Reqs :
    /\ RpmDecided(r) /\ RpmCounted(q) /\ KeyOf(r) = KeyOf(q)
    /\ hist[r].rpmWin = [resetTime |-> WindowMs, count |-> 1, tokens |-> 0]
    /\ hdr[r]["X-RateLimit-Remaining"] = Max(0, RpmLimitOf(r) - 1)
    /\ hist[q].rpmWin.resetTime > 2 * WindowMs /\ hist[q].rpmWin.count = 1
    /\ store[<<"apikey", KeyOf(q)>>].resetTime = hist[q].rpmWin.resetTime

RECURSIVE SumEstimates(_)
SumEstimates(S) ==
  IF S = {} THEN 0
  ELSE LET q == CHOOSE x \in S : TRUE
       IN  estimateTokenUsage(req[q].body) + SumEstimates(S \ {q})

\* The token estimates of the requests counted before r in r's TPM window.
TokensCountedBefore(r) ==
  SumEstimates({q \in IncrementsIn(<<"tokens", KeyOf(r)>>, hist[r].tpmWin.resetTime) :
                  hist[q].tpmWin.count < hist[r].tpmWin.count})

\* C9 (as claimed): the TPM limiter rejects a request exactly when the token
\* estimates already counted for its key in the window plus its own estimate
\* exceed the key's rateLimitTpm.
C9_TpmAccumulatesEstimates ==
  \A r \in Reqs :
    TpmCounted(r) =>
      ( hist[r].exit = "tpm"
        <=> TokensCountedBefore(r) + estimateTokenUsage(req[r].body) > TpmLimitOf(r) )

\* C10 (as claimed): the response to a request that went through the per-key
\* limiters carries limit, remaining and reset headers for the RPM dimension and
\* for the TPM dimension (named as in the API documentation).
C10_HeadersReportBothDimensions ==
  \A r \in Reqs :
    (pc[r] = "done" /\ RpmCounted(r)) =>
      /\ {"X-RateLimit-Limit", "X-RateLimit-Remaining", "X-RateLimit-Reset"}
           \subseteq DOMAIN hdr[r]
      /\ {"X-RateLimit-Limit-TPM", "X-RateLimit-Remaining-TPM"} \subseteq DOMAIN hdr[r]

\* The provider whose adapter the resolution algorithm of C11 names: the active
\* provider listing the model; else by the fragments "gpt" and "claude"; else
\* the first active provider; None when no provider is active.
ClaimedProviderForModel(act, model) ==
  LET ord == ActiveInOrder(act)
      exact == SelectSeq(ord, LAMBDA p : model \in ProviderModels(p))
  IN  IF exact # <<>> THEN Some(exact[1])
      ELSE IF Includes(model, "gpt") /\ "openai" \in act THEN Some("openai")
      ELSE IF Includes(model, "claude") /\ "anthropic" \in act THEN Some("anthropic")
      ELSE IF ord # <<>> THEN Some(ord[1])
      ELSE None

\* C11 (as claimed): getProviderForModel(model) returns the adapter of the
\* provider listing the model, else the OpenAI adapter for a name containing
\* "gpt" and the Anthropic adapter for a name containing "claude", else the
\* first active provider's; it fails only when no provider is active.
C11_ResolveByTableThenFragment ==
  ret.op = "resolve" =>
    /\ Has(ret.result) <=> Has(ClaimedProviderForModel(ret.act, ret.arg))
    /\ Has(ret.result) => Val(ret.result).name = Val(ClaimedProviderForModel(ret.act, ret.arg))
    /\ ~Has(ret.result) <=> ret.act = {}

\* The instance a call returned is the one the cache holds for its provider.
ReturnedIsCached ==
  (ret.op \in {"create", "resolve"} /\ Has(ret.result)) =>
    providers[Val(ret.result).name] = Val(ret.result).id

\* C12 (as claimed): a returned instance is the cached one, and a call that
\* finds the cached instance of its provider inactive invalidates the entry and
\* recreates it: it returns a new instance, which the cache then holds.
C12_CacheInvalidatedAndRecreated ==
  /\ ReturnedIsCached
  /\ ret.evicted => Has(ret.result) /\ providers[ret.arg] = Val(ret.result).id

\* C12 (state part): a returned instance is the cached one, no instance is
\* cached under two names, and a call that finds the cached instance of its
\* provider inactive removes the entry and fails.
C12_CacheState ==
  /\ ReturnedIsCached
  /\ \A p, q \in Providers : (p # q /\ providers[p] # 0) => providers[p] # providers[q]
  /\ ret.evicted => ~Has(ret.result) /\ providers[ret.arg] = 0

\* C12 (step part): the cached instance of a provider that is active is never
\* replaced, and an instance is constructed only for an active provider that
\* has none cached.
C12_CacheStep ==
  \A p \in Providers :
    /\ (providers[p] # 0 /\ p \in active) => providers'[p] = providers[p]
    /\ (providers'[p] # providers[p] /\ providers'[p] # 0) =>
         (providers[p] = 0 /\ p \in active /\ created' = created + 1)

\* C12: one cached adapter instance per provider name; an entry found inactive
\* is removed and is created again only by a later call made while the
\* provider is active.
C12_CachePerName == []C12_CacheState /\ [][C12_CacheStep]_vars

\* A create found its provider's cached instance inactive and removed it.
C12_Witness ==
  /\ ret.op = "create" /\ ret.evicted
  /\ ret.arg \notin ret.act
  /\ providers[ret.arg] = 0
  /\ created >= 1

\* C13: a request without `model` that the orchestrator resolves a model for
\* carries a default that is in the model list of an active provider, and that
\* is the model it is dispatched with; a default is missing only when no
\* provider is active, and then the request fails without an upstream call.
C13_DefaultModelIsAvailable ==
  \A r \in Reqs :
    ~Has(req[r].body.model) =>
      /\ Has(hist[r].model) =>
           /\ Val(hist[r].model) \in getAllAvailableModels(active)
           /\ \E p \in active : Val(hist[r].model) \in ProviderModels(p)
      /\ hist[r].dispatched => Has(hist[r].model)
      /\ hist[r].exit = "nomodel" => (active = {} /\ hist[r].upstreamCalls = 0)
      /\ (pc[r] \in {"upstream", "debit"} \/ hist[r].exit \in {"ok", "upstream", "sink"})
           => Has(hist[r].model)

\* With only the Anthropic provider active, a request without `model` was
\* dispatched with the default claude-2.0.
C13_Witness ==
  \E r \in Reqs :
    /\ active = {"anthropic"}
    /\ pc[r] = "done" /\ ~Has(req[r].body.model)
    /\ hist[r].model = Some("claude-2.0")
    /\ hist[r].dispatched

\* C14: a chat-completion request asking for streaming is never dispatched
\* upstream and never answered 200; when it reaches the controller it is
\* answered 400 with the code streaming_not_supported.
C14_StreamingRejected ==
  \A r \in Reqs :
    req[r].body.stream =>
      /\ ~hist[r].dispatched /\ hist[r].upstreamCalls = 0
      /\ adapterResp[r] = None
      /\ resp[r].status # 200
      /\ pc[r] \in {"new", "rpm", "rpmChk", "tpm", "ctrl", "done"}
      /\ pc[r] = "done" =>
           /\ hist[r].exit \in {"auth", "rpm", "tpm", "stream"}
           /\ hist[r].exit = "stream" =>
                (resp[r].status = 400 /\ resp[r].code = "streaming_not_supported")

\* A streaming request passed the limiters and was answered 400
\* streaming_not_supported by the controller.
C14_Witness ==
  \E r \in Reqs :
    /\ req[r].body.stream /\ pc[r] = "done" /\ hist[r].exit = "stream"
    /\ resp[r] = [status |-> 400, code |-> "streaming_not_supported", body |-> None]
    /\ hist[r].upstreamCalls = 0

C16_UpstreamFailureClassified ==
  \A r \in Reqs :
     (pc[r] = "done" /\ Has(hist[r].upstream)) =>
        LET res == Val(hist[r].upstream)
            error == Val(hist[r].err)
        IN  /\ error.app
            /\ error.type = "provider_error"
            /\ error.provider = Some(AdapterOf(r))
            /\ resp[r].code = "provider_request_failed"
            /\ res.kind = "response" => resp[r].status = res.status
            /\ res.kind = "noresponse" => resp[r].status = 503
            /\ res.kind = "setup" => resp[r].status = 500

\* C17: a request that fails the adapter's validation is answered with a
\* typed request error of the 4xx class, and no upstream call is made for it.
C17_AdapterValidationIsRequestError ==
  \A r \in Reqs :
     (pc[r] = "done" /\ hist[r].exit = "adapter") =>
        /\ hist[r].upstreamCalls = 0
        /\ resp[r].status \in 400..499
        /\ Val(hist[r].err).app

\* C18: every adapter's validation rejects a request whose max_tokens lies
\* outside [1, 100000], and accepts 100000 on a request that is valid
\* otherwise; the Anthropic adapter also rejects a request without max_tokens
\* and one whose max_tokens is above 4096.
C18_MaxTokensBounds ==
  adapterCall.op = "validateRequest" =>
    LET p == adapterCall.provider
        request == adapterCall.request
        mt == request.max_tokens
    IN  /\ (Has(mt) /\ (Val(mt) < 1 \/ Val(mt) > 100000)) => ~adapterCall.ok
        /\ (/\ p = "openai"
            /\ mt = Some(100000)
            /\ Has(request.messages)
            /\ request.model = Some("gpt-3.5-turbo")) => adapterCall.ok
        /\ (p = "anthropic" /\ (~Has(mt) \/ Val(mt) > 4096)) => ~adapterCall.ok

\* C19: the canonical response an adapter returns for a successful completion
\* has a non-empty `choices` sequence, whatever the upstream body was.
C19_ChoicesNonEmpty ==
  (adapterCall.op = "transformResponse" /\ Has(adapterCall.result)) =>
     Len(Val(adapterCall.result).choices) > 0

\* C20: with authentication disabled, a valid chat completion request that
\* carries no credentials is processed through to the dispatch to the
\* provider, and is answered with the completion when the provider call and
\* the usage write succeed.
C20_DisabledAuthIsServed ==
  \A r \in Reqs :
     (/\ disableAuth
      /\ pc[r] = "done"
      /\ ~Has(req[r].apiKey)
      /\ ~StreamRequested(req[r].body)
      /\ orchestratorValid(active, req[r].body)) =>
        /\ hist[r].dispatched
        /\ hist[r].exit = "ok" => (resp[r].status = 200 /\ Has(resp[r].body))
        /\ hist[r].exit \in {"ok", "adapter", "upstream", "sink"}

\* C21: with authentication disabled the per-key layers still count: a request
\* that got past the rate limiters was counted by the requests-per-minute
\* layer and, when its token estimate is not 0, by the tokens-per-minute layer.
C21_RateLimitingWithAuthDisabled ==
  \A r \in Reqs :
     (disableAuth /\ pc[r] \in {"ctrl", "upstream", "debit", "done"}) =>
        /\ hist[r].rpmWin # NoWin
        /\ estimateTokenUsage(req[r].body) # 0 => hist[r].tpmWin # NoWin

\* C22: the token estimate the tokens-per-minute admission check used for a
\* request equals the token estimate its pre-flight cost estimate is computed
\* from.
C22_OneTokenEstimator ==
  \A r \in Reqs :
     (hist[r].tpmWin # NoWin /\ Has(hist[r].model)) =>
        hist[r].tpmWin.tokens = EstimatedTokens(r)

\* C23: the health check has one synthetic request per active provider, all
\* in flight together, and returns exactly one entry per active provider once
\* all of them have settled; a provider's entry reports it unhealthy exactly
\* when its own request failed or timed out, and a settling request leaves
\* the entries of the other providers as they were.
C23_HealthState ==
  /\ health.phase # "idle" =>
       /\ health.probed = active
       /\ \A p \in active : health.calls[p] = 1
       /\ DOMAIN health.results = health.probed \ health.pending
       /\ \A p \in DOMAIN health.results :
            /\ health.results[p].healthy <=> health.outcome[p].kind = "ok"
            /\ health.results[p].healthy <=> ~Has(health.results[p].error)
  /\ health.phase = "returned" =>
       /\ health.pending = {}
       /\ DOMAIN Val(health.returned) = active
       /\ Val(health.returned) = health.results
  /\ health.phase # "returned" => ~Has(health.returned)

C23_HealthStep ==
  health.phase = "running" =>
     \A q \in DOMAIN health.results :
        /\ q \in DOMAIN health'.results
        /\ health'.results[q] = health.results[q]

C23_HealthCheckFanOut == []C23_HealthState /\ [][C23_HealthStep]_vars

\* Both providers were probed; Anthropic answered at once, OpenAI hung until
\* its timeout a window later: the check returned one healthy and one
\* unhealthy entry.
C23_Witness ==
  /\ health.phase = "returned"
  /\ active = Providers
  /\ health.results["anthropic"] = [healthy |-> TRUE, latency |-> 0, error |-> None]
  /\ health.outcome["openai"].kind = "noresponse"
  /\ ~health.results["openai"].healthy
  /\ health.results["openai"].latency = TickMs

\* C24: an orchestration makes at most one upstream HTTP call.  When the call
\* fails the request is answered with the error in the same step: it is not
\* sent again, to the same provider or to another one.
C24_CallsAtMostOnce ==
  \A r \in Reqs :
     /\ hist[r].upstreamCalls <= 1
     /\ pc[r] \in {"upstream", "debit"} => hist[r].upstreamCalls = 1
     /\ Has(hist[r].upstream) =>
          /\ pc[r] = "done"
          /\ hist[r].upstreamCalls = 1
          /\ resp[r].status >= 400
          /\ ~Has(resp[r].body)

C24_NoSecondCall ==
  \A r \in Reqs :
     pc[r] = "upstream" =>
        /\ pc'[r] \in {"upstream", "debit", "done"}
        /\ hist'[r].upstreamCalls = hist[r].upstreamCalls

C25_RoundTripPreservesText ==
  adapterCall.op = "roundTrip" =>
    LET users == SelectSeq(adapterCall.request.messages, LAMBDA m : m.role = "user")
        sent == SelectSeq(adapterCall.payload.messages, LAMBDA m : m.role = "user")
    IN  /\ Len(sent) = Len(users)
        /\ \A i \in 1..Len(users) : sent[i].content = users[i].content
        /\ adapterCall.content = Some(UpstreamText(adapterCall.items))

\* C26: every limiter counts exactly the requests that pass through it, one
\* increment per request: the count a limiter sees for a key is the number of
\* requests that went through that limiter with that key in the window so
\* far, whatever the other limiters did.
C26_LimitersAreIndependent ==
  \A p \in edge.passes :
     p.count = Cardinality({q \in edge.passes :
                              /\ q.limiter = p.limiter
                              /\ q.key = p.key
                              /\ q.resetTime = p.resetTime
                              /\ q.seq <= p.seq})

\* C27: the reset time reported in a request's rate-limit headers is the
\* reset time of the window its increment fell into, the instant after which
\* the next increment of the key opens a new window with count 1.
C27_ReportedResetIsWindowReset ==
  \A r \in Reqs :
     "X-RateLimit-Reset" \in DOMAIN hdr[r] =>
        hdr[r]["X-RateLimit-Reset"] = hist[r].rpmWin.resetTime

\* C28: a user's credit balance is never negative; a debit that would take
\* the balance below zero leaves the balance as it was, under every
\* interleaving of concurrent completions.
C28_BalanceState == \A u \in Users : credits[u] >= 0

C28_DebitStep ==
  \A r \in Reqs :
     (pc[r] = "debit" /\ pc'[r] = "done") =>
        LET u == CallerUserId(r)
            cost == LogDataCost(SuccessRecord(r, Val(adapterResp[r])))
        IN  /\ credits[u] - cost < 0 => credits' = credits
            /\ credits'[u] \in {credits[u], credits[u] - cost}
            /\ \A v \in Users \ {u} : credits'[v] = credits[v]

C28_BalanceNeverNegative == []C28_BalanceState /\ [][C28_DebitStep]_vars

\* Two completions of one user were in flight together, each affordable on
\* its own; the first debit was applied, the second would have overdrawn the
\* balance and was refused.
C28_Witness ==
  \E r, q \in Reqs :
     /\ r # q
     /\ pc[r] = "done" /\ pc[q] = "done"
     /\ hist[r].debit = "ok"
     /\ hist[q].debit = "failed"
     /\ credits["u1"] = InitialCredits["u1"] - 80000
     /\ credits["u1"] - 80000 < 0
     /\ \A x \in {r, q} : Val(adapterResp[x]).usage = Some(Usage(40, 10, 50))

\* The sum of the cost fields of a set of usage records.
RECURSIVE SumCosts(_)
SumCosts(S) ==
  IF S = {} THEN 0
  ELSE LET rec == CHOOSE x \in S : TRUE IN rec.cost + SumCosts(S \ {rec})

\* C29: with no top-ups, once a user's completions have finished the user's
\* balance is the initial balance minus the sum of the costs of the user's
\* written usage records: every recorded cost has been debited.
C29_LedgerConservation ==
  (\A r \in Reqs : pc[r] = "done") =>
     \A u \in Users :
        credits[u] = InitialCredits[u] - SumCosts({rec \in usageLog : rec.userId = u})

\* C30: every usage record written satisfies totalTokens = promptTokens +
\* completionTokens, also when the upstream response carries no usage and the
\* 70/30 split of the estimate is recorded.
C30_TotalIsSumOfParts ==
  \A rec \in usageLog : rec.totalTokens = rec.promptTokens + rec.completionTokens

====
